---- MODULE Spec2Model ----
(***************************************************************************)
(* A model of package view (src/view.go): Render, the mapper cache with    *)
(* its indirect (placeholder) funcs, the per-kind mappers and the field    *)
(* cache.  Go strings that the code splits or compares (tags, view names)  *)
(* are sequences of characters; other strings are opaque.  reflect.Type is *)
(* a name looked up in TypeTable; reflect.Value is a record carrying its   *)
(* type name t.  All struct fields are exported, as in the package's test. *)
(***************************************************************************)
EXTENDS Integers, Sequences, FiniteSets, TLC

VARIABLES
    mapperCache,   \* mapperCache.m: mapperCacheKey -> mapperFunc
    fieldCache,    \* fieldCache.m: reflect.Type -> []field
    indirect,      \* the closures of getTypeMapper: their captured f and wg
    stack,         \* per goroutine: the call stack of its Render call
    call,          \* per goroutine: the arguments of its current/last Render
    returned,      \* the finished Render calls, in order: arguments and results
    calls,         \* number of Render calls started so far
    locks          \* the RWMutex of mapperCache and of fieldCache: who holds it

vars == <<mapperCache, fieldCache, indirect, stack, call, returned, calls, locks>>

---------------------------------------------------------------------------
(* Bounds *)

\* Render calls started in one behaviour of the sequential specification.
MaxCalls == 2
\* Render calls started in one behaviour of the concurrent specification.
MaxConcCalls == 2

Goroutines == {"g1", "g2"}

---------------------------------------------------------------------------
(* Strings that the code inspects *)

admin   == <<"a","d","m","i","n">>
support == <<"s","u","p","p","o","r","t">>
user    == <<"u","s","e","r">>
system  == <<"s","y","s","t","e","m">>
comma   == <<",">>
space   == <<" ">>
empty   == <<>>

\* strings.Split(s, ","): the pieces of s between commas; Split("") = [""].
RECURSIVE SplitFrom(_, _, _)
SplitFrom(s, i, cur) ==
    IF i > Len(s) THEN <<cur>>
    ELSE IF s[i] = "," THEN <<cur>> \o SplitFrom(s, i + 1, <<>>)
    ELSE SplitFrom(s, i + 1, Append(cur, s[i]))

Split(s) == SplitFrom(s, 1, <<>>)

---------------------------------------------------------------------------
(* reflect.Type: the types of the package's test and a few more *)

SF(name, type, tag) == [Name |-> name, Type |-> type, Tag |-> tag]

TypeTable ==
    [ uint      |-> [Kind |-> "Uint"],
      string    |-> [Kind |-> "String"],
      chan      |-> [Kind |-> "Chan"],
      iface     |-> [Kind |-> "Interface"],
      User      |-> [Kind |-> "Struct", Fields |-> <<
                        SF("Id", "uint", support \o comma \o admin),
                        SF("Name", "string", support \o comma \o user),
                        SF("Password", "string", user),
                        SF("Key", "string", empty) >>],
      PtrUser   |-> [Kind |-> "Ptr", Elem |-> "User"],
      Product   |-> [Kind |-> "Struct", Fields |-> <<
                        SF("Id", "uint", empty),
                        SF("Name", "string", support \o comma \o space \o user),
                        SF("Code", "string", support) >>],
      PtrProduct |-> [Kind |-> "Ptr", Elem |-> "Product"],
      SliceProduct |-> [Kind |-> "Slice", Elem |-> "Product"],
      Activity  |-> [Kind |-> "Struct", Fields |-> <<
                        SF("User", "PtrUser", empty),
                        SF("Products", "SliceProduct", empty) >>],
      PtrActivity |-> [Kind |-> "Ptr", Elem |-> "Activity"],
      SrcField  |-> [Kind |-> "Struct", Fields |-> <<
                        SF("Channel", "chan", empty) >>],
      Src       |-> [Kind |-> "Struct", Fields |-> <<
                        SF("Field", "SrcField", empty) >>],
      MapIntPtrProduct |-> [Kind |-> "Map", Key |-> "int", Elem |-> "PtrProduct"],
      ArrPtrProduct |-> [Kind |-> "Array", Elem |-> "PtrProduct"],
      HasI      |-> [Kind |-> "Struct", Fields |-> <<
                        SF("I", "iface", empty) >>],
      SK        |-> [Kind |-> "Struct", Fields |-> <<
                        SF("S", "string", admin),
                        SF("K", "string", empty) >>],
      Guarded   |-> [Kind |-> "Struct", Fields |-> <<
                        SF("Id", "uint", admin),
                        SF("Done", "chan", support) >>],
      Point     |-> [Kind |-> "Struct", Fields |-> <<
                        SF("X", "uint", admin),
                        SF("Y", "uint", admin \o comma \o support) >>],
      Node      |-> [Kind |-> "Struct", Fields |-> <<
                        SF("Val", "uint", admin),
                        SF("Next", "PtrNode", admin),
                        SF("Key", "string", empty) >>],
      PtrNode   |-> [Kind |-> "Ptr", Elem |-> "Node"],
      Tree      |-> [Kind |-> "Struct", Fields |-> <<
                        SF("Val", "uint", admin),
                        SF("Kids", "SliceTree", admin),
                        SF("Key", "string", empty) >>],
      SliceTree |-> [Kind |-> "Slice", Elem |-> "Tree"] ]

Kind(t) == TypeTable[t].Kind
Elem(t) == TypeTable[t].Elem
NumField(t) == Len(TypeTable[t].Fields)
\* t.Field(i), i counted from 0 as in Go
Field(t, i) == TypeTable[t].Fields[i + 1]

---------------------------------------------------------------------------
(* reflect.Value: the values handed to Render *)

InvalidValue == [t |-> "invalid"]                 \* reflect.ValueOf(nil)
UintV(n)     == [t |-> "uint", n |-> n]
StringV(s)   == [t |-> "string", s |-> s]
ChanV(isNil) == [t |-> "chan", nil |-> isNil]
\* a pointer is its address; address 0 is nil
PtrV(t, addr) == [t |-> t, nil |-> (addr = 0), addr |-> addr]
StructV(t, fs) == [t |-> t, f |-> fs]
SliceV(t, isNil, es) == [t |-> t, nil |-> isNil, e |-> es]
ArrayV(t, es) == [t |-> t, e |-> es]
MapV(t, m) == [t |-> t, m |-> m]
NilIface == [t |-> "iface", nil |-> TRUE]
IfaceV(dyn) == [t |-> "iface", nil |-> FALSE, elem |-> dyn]

UserV == StructV("User", <<UintV(7), StringV("Jon Doe"), StringV("secret"), StringV("12345")>>)
Product3 == StructV("Product", <<UintV(3), StringV("T-shirt"), StringV("123-456-7890")>>)
Product5 == StructV("Product", <<UintV(5), StringV("Shoes"), StringV("789-000-1111")>>)
Products == SliceV("SliceProduct", FALSE, <<Product3, Product5>>)

\* What the pointers of the test values point to.
Heap ==
    ( 1 :> UserV ) @@
    ( 2 :> StructV("Activity", <<PtrV("PtrUser", 1), Products>>) ) @@
    ( 3 :> Product3 ) @@
    ( 4 :> StructV("Node", <<UintV(1), PtrV("PtrNode", 5), StringV("k1")>>) ) @@
    ( 5 :> StructV("Node", <<UintV(2), PtrV("PtrNode", 0), StringV("k2")>>) ) @@
    ( 6 :> Product5 )

u == PtrV("PtrUser", 1)
a == PtrV("PtrActivity", 2)
src == StructV("Src", <<StructV("SrcField", <<ChanV(TRUE)>>)>>)
productMap == MapV("MapIntPtrProduct", (1 :> PtrV("PtrProduct", 3)) @@ (2 :> PtrV("PtrProduct", 0)))
nodes == PtrV("PtrNode", 4)
tree == StructV("Tree", <<UintV(1),
            SliceV("SliceTree", FALSE,
                   <<StructV("Tree", <<UintV(2), SliceV("SliceTree", TRUE, <<>>), StringV("k2")>>)>>),
            StringV("k1")>>)
guarded == StructV("Guarded", <<UintV(7), ChanV(FALSE)>>)
point == StructV("Point", <<UintV(1), UintV(2)>>)
\* the array of the test, [2]*Product
productArray == ArrayV("ArrPtrProduct", <<PtrV("PtrProduct", 3), PtrV("PtrProduct", 6)>>)
\* the struct of the interface test, holding u and then a struct{S; K}
sk == StructV("SK", <<StringV("test"), StringV("key")>>)
hasUser == StructV("HasI", <<IfaceV(u)>>)
hasSK == StructV("HasI", <<IfaceV(sk)>>)
hasNil == StructV("HasI", <<NilIface>>)
\* nil and empty containers, at the root and in the fields of an Activity
nilUser == PtrV("PtrUser", 0)
nilProducts == SliceV("SliceProduct", TRUE, <<>>)
noProducts == SliceV("SliceProduct", FALSE, <<>>)
vacant == StructV("Activity", <<nilUser, nilProducts>>)
bare == StructV("Activity", <<u, noProducts>>)

IsValid(v) == v.t # "invalid"
IsNil(v) == v.nil
\* v.Elem() of a pointer or of an interface
ValueElem(v) == IF Kind(v.t) = "Ptr" THEN Heap[v.addr] ELSE v.elem
\* v.Field(i), i counted from 0
ValueField(v, i) == v.f[i + 1]

---------------------------------------------------------------------------
(* Fields of a struct type *)

\* newField: the field's name, its index, its tag and the views the tag lists
newField(sf, index) ==
    [name |-> sf.Name, index |-> index, tag |-> sf.Tag, views |-> Split(sf.Tag)]

buildTypeFields(t) ==
    [i \in 1..NumField(t) |-> newField(Field(t, i - 1), i - 1)]

isMatchView(f, viewName) ==
    \E i \in 1..Len(f.views) : viewName = f.views[i]

\* Render's options: opt.fieldMatcher is the match method of viewMatcher{viewName}
Options(viewName) ==
    [noCache |-> FALSE, cacheTag |-> viewName, fieldMatcher |-> [viewName |-> viewName]]

match(m, f) == isMatchView(f, m.viewName)

\* mapperCacheKey if the key were the type alone
mapperCacheKeyTypeOnly(t, opt) == [t |-> t, tag |-> empty]

mapperCacheKey(t, opt) == [t |-> t, tag |-> opt.cacheTag]

---------------------------------------------------------------------------
(* mapperFunc values.  A func is a record naming the function or method    *)
(* and, for a method value or closure, what it captured.                   *)

NilMapper == [fn |-> "nil"]
invalidValueMapper == [fn |-> "invalidValueMapper"]
identityMapper == [fn |-> "identityMapper"]
unsupportedTypeMapper == [fn |-> "unsupportedTypeMapper"]
\* the closure of getTypeMapper; id names its captured f and wg
IndirectMapper(id) == [fn |-> "indirect", id |-> id]

newPtrMapper(fn) ==
    IF fn = NilMapper THEN NilMapper
    ELSE [fn |-> "ptrMapper", elemMapper |-> fn]

\* newInterfaceMapper if an interface had no mapper of its own
newInterfaceMapperNone(opt) == NilMapper

newInterfaceMapper(opt) == [fn |-> "interfaceMapper", opt |-> opt]

\* newArrayMapper if it never built an arrayMapper
newArrayMapperNone(fn) == NilMapper

newArrayMapper(fn) ==
    IF fn = NilMapper THEN NilMapper
    ELSE [fn |-> "arrayMapper", elemMapper |-> fn]

\* newSliceMapper without the sliceMapper around the arrayMapper, lines
\* 201-202: nothing looks at v.IsNil()
newSliceMapperNoNilCheck(fn) == newArrayMapper(fn)

newSliceMapper(fn) ==
    IF newArrayMapper(fn) = NilMapper THEN NilMapper
    ELSE [fn |-> "sliceMapper", arrayMapper |-> newArrayMapper(fn)]

newMapMapper(t, fn) ==
    IF fn = NilMapper THEN NilMapper
    ELSE [fn |-> "mapMapper", mapType |-> [Key |-> TypeTable[t].Key, Elem |-> "iface"],
          elemMapper |-> fn]

\* the indexes (from 1) of the fields that opt.fieldMatcher accepts, in order
RECURSIVE MatchedFrom(_, _, _)
MatchedFrom(fields, opt, i) ==
    IF i > Len(fields) THEN <<>>
    ELSE (IF match(opt.fieldMatcher, fields[i]) THEN <<i>> ELSE <<>>)
         \o MatchedFrom(fields, opt, i + 1)

\* canBeIdent if it required that no field matched
canBeIdentNoneMatched(fields, matched, fns) ==
    /\ \A i \in 1..Len(fields) : fns[i] = NilMapper
    /\ Len(matched) = 0

\* canBeIdent at line 299: no field needs a mapper, and the view matched
\* none or all of the fields
canBeIdent(fields, matched, fns) ==
    /\ \A i \in 1..Len(fields) : fns[i] = NilMapper
    /\ ~(Len(matched) # 0 /\ Len(matched) # Len(fields))

\* selectedFields if the matched fields were never used
selectedFieldsAll(fields, matched) == [i \in 1..Len(fields) |-> i]

\* selectedFields without lines 302-305
selectedFieldsMatchedOnly(fields, matched) == matched

\* the fields the struct mapper walks: the matched ones, or all if none matched
selectedFields(fields, matched) ==
    IF Len(matched) = 0 THEN [i \in 1..Len(fields) |-> i] ELSE matched

\* newStructMapper, given fields = getTypeFields(t) and fns[i] = what
\* getTypeMapper returned for the type of field i
newStructMapper(fields, fns, opt) ==
    LET fieldMappers == [i \in 1..Len(fields) |->
                            IF fns[i] = NilMapper THEN identityMapper ELSE fns[i]]
        matched == MatchedFrom(fields, opt, 1)
        sel == selectedFields(fields, matched)
    IN  IF canBeIdent(fields, matched, fns) THEN NilMapper
        ELSE [fn |-> "structMapper",
              fields |-> [i \in 1..Len(sel) |-> fields[sel[i]]],
              fieldMappers |-> [i \in 1..Len(sel) |-> fieldMappers[sel[i]]]]

\* The types newTypeMapper(t) asks getTypeMapper for, in the order it asks.
nestedTypes(t) ==
    CASE Kind(t) \in {"Ptr", "Map", "Array", "Slice"} -> <<Elem(t)>>
      [] Kind(t) = "Struct" -> [i \in 1..NumField(t) |-> Field(t, i - 1).Type]
      [] OTHER -> <<>>

\* newTypeMapper, given fns = the mappers of nestedTypes(t) and, for a
\* struct, fields = getTypeFields(t)
newTypeMapper(t, opt, fields, fns) ==
    CASE Kind(t) \in {"Invalid", "Func", "Chan", "UnsafePointer"} -> unsupportedTypeMapper
      [] Kind(t) = "Ptr" -> newPtrMapper(fns[1])
      [] Kind(t) = "Interface" -> newInterfaceMapper(opt)
      [] Kind(t) = "Map" -> newMapMapper(t, fns[1])
      [] Kind(t) = "Array" -> newArrayMapper(fns[1])
      [] Kind(t) = "Slice" -> newSliceMapper(fns[1])
      [] Kind(t) = "Struct" -> newStructMapper(fields, fns, opt)
      [] OTHER -> NilMapper

---------------------------------------------------------------------------
(* What a mapper returns (interface{} values) and what a call panics with *)

NilResult == [k |-> "nil"]                        \* the nil interface{}
Interface(v) == [k |-> "value", v |-> v]          \* v.Interface(): v itself
StructResult(m) == [k |-> "map[string]interface{}", m |-> m]
SliceResult(es) == [k |-> "[]interface{}", e |-> es]
MapResult(mapType, m) == [k |-> "map", mapType |-> mapType, m |-> m]

NoError == [e |-> "nil"]
UnsupportedTypeError(t) == [e |-> "UnsupportedTypeError", Type |-> t]
\* the runtime's panic on calling a nil func
NilFuncCall == [e |-> "runtime error", what |-> "call of nil func"]

---------------------------------------------------------------------------
(* The call stack of one goroutine inside Render.  Steps that touch only   *)
(* the goroutine's own frames run to the next step that reads or writes    *)
(* the caches or an indirect func (Run); those are the actions below.      *)

\* getTypeMapper(t, opt) at its first line
GetFrame(t, opt) ==
    [fk |-> "getTypeMapper", t |-> t, opt |-> opt, pc |-> "read", id |-> 0,
     haveFields |-> FALSE, fields |-> <<>>, fns |-> <<>>, f |-> NilMapper]

\* mapValue(v, opt)
MapValueFrame(v, opt) == [fk |-> "mapValue", v |-> v, opt |-> opt]

\* the call m(v) of a mapperFunc; i and result are the locals of the loops
CallFrame(m, v) == [fk |-> "call", m |-> m, v |-> v, i |-> 0, result |-> <<>>]

Running(stk) == [stk |-> stk, hasRet |-> FALSE, ret |-> NilResult, st |-> "run", panic |-> NoError]
Push(ms, fr) == [ms EXCEPT !.stk = Append(@, fr), !.hasRet = FALSE]
\* the top frame returns r to the frame below
Return(ms, r) == [ms EXCEPT !.stk = SubSeq(@, 1, Len(@) - 1), !.hasRet = TRUE, !.ret = r]
\* the top frame is replaced by fr (a call in return position)
Goto(ms, fr) == [ms EXCEPT !.stk = Append(SubSeq(@, 1, Len(@) - 1), fr), !.hasRet = FALSE]
SetTop(ms, fr) == Goto(ms, fr)
Stop(ms) == [ms EXCEPT !.st = "stop"]
\* panic(e): the stack unwinds to mapInterface's deferred func
Panic(ms, e) == [ms EXCEPT !.stk = <<>>, !.st = "panic", !.panic = e]

\* the keys of a Go map in the order the model ranges over them
RECURSIVE SortedKeys(_)
SortedKeys(S) ==
    IF S = {} THEN <<>>
    ELSE LET k == CHOOSE x \in S : \A y \in S : x <= y
         IN  <<k>> \o SortedKeys(S \ {k})

\* result.SetMapIndex(key, reflect.ValueOf(x)): ValueOf(nil) is the zero
\* Value, and SetMapIndex with a zero Value deletes key from the map
SetMapIndex(result, key, x) ==
    IF x = NilResult
    THEN [k \in DOMAIN result \ {key} |-> result[k]]
    ELSE (key :> x) @@ result

\* result[f.name] = val
SetField(result, name, val) == (name :> val) @@ result

\* one step of the call m(v) on top of the stack
CallStep(ms, top) ==
    LET m == top.m
        v == top.v
    IN  CASE m.fn = "nil" -> Panic(ms, NilFuncCall)
          [] m.fn = "invalidValueMapper" -> Return(ms, NilResult)
          [] m.fn = "identityMapper" -> Return(ms, Interface(v))
          [] m.fn = "unsupportedTypeMapper" -> Panic(ms, UnsupportedTypeError(v.t))
          [] m.fn = "ptrMapper" ->
                IF IsNil(v) THEN Return(ms, NilResult)
                ELSE Goto(ms, CallFrame(m.elemMapper, ValueElem(v)))
          [] m.fn = "interfaceMapper" ->
                IF IsNil(v) THEN Return(ms, NilResult)
                ELSE Goto(ms, MapValueFrame(ValueElem(v), m.opt))
          [] m.fn = "sliceMapper" ->
                IF IsNil(v) THEN Return(ms, NilResult)
                ELSE Goto(ms, CallFrame(m.arrayMapper, v))
          [] m.fn = "arrayMapper" ->
                IF ms.hasRet
                THEN SetTop(ms, [top EXCEPT !.result = Append(@, ms.ret), !.i = @ + 1])
                ELSE IF top.i < Len(v.e)
                THEN Push(ms, CallFrame(m.elemMapper, v.e[top.i + 1]))
                ELSE Return(ms, SliceResult(top.result))
          [] m.fn = "mapMapper" ->
                LET keys == SortedKeys(DOMAIN v.m)
                IN  IF ms.hasRet
                    THEN SetTop(ms, [top EXCEPT
                            !.result = SetMapIndex(@, keys[top.i + 1], ms.ret),
                            !.i = @ + 1])
                    ELSE IF top.i < Len(keys)
                    THEN Push(ms, CallFrame(m.elemMapper, v.m[keys[top.i + 1]]))
                    ELSE Return(ms, MapResult(m.mapType, top.result))
          [] m.fn = "structMapper" ->
                IF ms.hasRet
                THEN SetTop(ms, [top EXCEPT
                        !.result = SetField(@, m.fields[top.i + 1].name, ms.ret),
                        !.i = @ + 1])
                ELSE IF top.i < Len(m.fields)
                THEN Push(ms, CallFrame(m.fieldMappers[top.i + 1],
                                        ValueField(v, m.fields[top.i + 1].index)))
                ELSE Return(ms, StructResult(top.result))
          [] m.fn = "indirect" -> Stop(ms)           \* wg.Wait()

\* getValueMapper without lines 69-71: a nil mapper is called as it is
MapValueStepNoIdentity(ms, top) ==
    IF ms.hasRet
    THEN Goto(ms, CallFrame(ms.ret, top.v))
    ELSE IF ~IsValid(top.v)
    THEN Goto(ms, CallFrame(invalidValueMapper, top.v))
    ELSE Push(ms, GetFrame(top.v.t, top.opt))

\* mapValue and getValueMapper: the mapper of v's type, or identityMapper
\* for nil, or invalidValueMapper for the zero Value, called on v
MapValueStep(ms, top) ==
    IF ms.hasRet
    THEN Goto(ms, CallFrame(IF ms.ret = NilMapper THEN identityMapper ELSE ms.ret, top.v))
    ELSE IF ~IsValid(top.v)
    THEN Goto(ms, CallFrame(invalidValueMapper, top.v))
    ELSE Push(ms, GetFrame(top.v.t, top.opt))

\* getTypeMapper between its steps on the caches: newTypeMapper's own work
GetStep(ms, top) ==
    IF ms.hasRet
    THEN SetTop(ms, [top EXCEPT !.fns = Append(@, ms.ret)])
    ELSE IF top.pc # "build" THEN Stop(ms)
    ELSE IF Kind(top.t) = "Struct" /\ ~top.haveFields
    THEN Stop(SetTop(ms, [top EXCEPT !.pc = "fields"]))
    ELSE IF Len(top.fns) < Len(nestedTypes(top.t))
    THEN Push(ms, GetFrame(nestedTypes(top.t)[Len(top.fns) + 1], top.opt))
    ELSE Stop(SetTop(ms, [top EXCEPT !.pc = "assign"]))

LocalStep(ms) ==
    IF ms.stk = <<>> THEN [ms EXCEPT !.st = "returned"]
    ELSE LET top == ms.stk[Len(ms.stk)]
         IN  CASE top.fk = "getTypeMapper" -> GetStep(ms, top)
               [] top.fk = "mapValue" -> MapValueStep(ms, top)
               [] top.fk = "call" -> CallStep(ms, top)

\* the steps are taken one at a time, each from the state the last one left
RECURSIVE Run(_)
Run(ms) ==
    IF ms.st # "run" THEN ms
    ELSE CHOOSE r \in {Run(n) : n \in {LocalStep(ms)}} : TRUE

\* mapInterface without its deferred func
mapInterfaceNoRecover(ms) ==
    IF ms.st = "panic"
    THEN [i |-> NilResult, err |-> NoError, panic |-> ms.panic]
    ELSE [i |-> ms.ret, err |-> NoError, panic |-> NoError]

\* mapInterface's return values once mapValue returned or panicked: its
\* deferred func turns an *UnsupportedTypeError into err and panics again
\* with anything else
mapInterface(ms) ==
    IF ms.st = "panic"
    THEN IF ms.panic.e = "UnsupportedTypeError"
         THEN [i |-> NilResult, err |-> ms.panic, panic |-> NoError]
         ELSE [i |-> NilResult, err |-> NoError, panic |-> ms.panic]
    ELSE [i |-> ms.ret, err |-> NoError, panic |-> NoError]

---------------------------------------------------------------------------
(* The state machine *)

\* what Render is called with in the sequential specification
Srcs == {u, a, src, productMap, nodes, guarded, point, ChanV(FALSE)}
Views == {admin, support, system}

\* what Render is called with in the concurrent specification
ConcSrcs == {UintV(7), StructV("SK", <<StringV("test"), StringV("key")>>)}
ConcViews == {admin}

Init ==
    /\ mapperCache = <<>>
    /\ fieldCache = <<>>
    /\ indirect = <<>>
    /\ stack = [g \in Goroutines |-> <<>>]
    /\ call = [g \in Goroutines |-> [src |-> InvalidValue, viewName |-> empty]]
    /\ returned = <<>>
    /\ calls = 0
    /\ locks = [c \in {"mapperCache", "fieldCache"} |-> [writer |-> "", readers |-> {}]]

Top(g) == stack[g][Len(stack[g])]
AtGet(g, pc) ==
    /\ stack[g] # <<>>
    /\ Top(g).fk = "getTypeMapper"
    /\ Top(g).pc = pc

\* mapperCache.m[key], nil for a key the map does not hold
CacheGet(key) == IF key \in DOMAIN mapperCache THEN mapperCache[key] ELSE NilMapper

\* The goroutine runs on from ms to its next step on shared state, or to
\* the return of mapInterface, whose results are then recorded.
Settle(g, c, ms0) ==
    LET ms == Run(ms0)
        r == mapInterface(ms)
    IN  /\ stack' = [stack EXCEPT ![g] = ms.stk]
        /\ returned' =
              IF ms.st = "stop" THEN returned
              ELSE Append(returned, [g |-> g, src |-> c.src, viewName |-> c.viewName,
                                     i |-> r.i, err |-> r.err, panic |-> r.panic])

\* Render(src, viewName) up to getTypeMapper's read of the cache
Render(g, v, viewName, max) ==
    /\ stack[g] = <<>>
    /\ calls < max
    /\ calls' = calls + 1
    /\ call' = [call EXCEPT ![g] = [src |-> v, viewName |-> viewName]]
    /\ Settle(g, call'[g], Running(<<MapValueFrame(v, Options(viewName))>>))
    /\ UNCHANGED <<mapperCache, fieldCache, indirect, locks>>

\* getTypeMapper, lines 100-106: read the cache; return what it holds
\* (opt.noCache is false in every call Render makes, lines 95-98 never run)
ReadCacheLocked(g) ==
    /\ AtGet(g, "read")
    /\ LET top == Top(g)
           f == CacheGet(mapperCacheKey(top.t, top.opt))
       IN  IF f # NilMapper
           THEN Settle(g, call[g], Return(Running(stack[g]), f))
           ELSE Settle(g, call[g], SetTop(Running(stack[g]), [top EXCEPT !.pc = "publish"]))
    /\ UNCHANGED <<mapperCache, fieldCache, indirect, call, calls>>

\* lines 100-102 in one step: RLock, the read, RUnlock
ReadCache(g) == ReadCacheLocked(g) /\ UNCHANGED locks

\* Publish without line 117: the WaitGroup's counter stays 0
PublishNoAdd(g) ==
    /\ AtGet(g, "publish")
    /\ LET top == Top(g)
           id == Len(indirect) + 1
       IN  /\ indirect' = Append(indirect, [f |-> NilMapper, wg |-> 0])
           /\ mapperCache' = (mapperCacheKey(top.t, top.opt) :> IndirectMapper(id)) @@ mapperCache
           /\ Settle(g, call[g], SetTop(Running(stack[g]), [top EXCEPT !.pc = "build", !.id = id]))
    /\ UNCHANGED <<fieldCache, call, calls, locks>>

\* getTypeMapper, lines 112-122: store the indirect func under the key
PublishLocked(g) ==
    /\ AtGet(g, "publish")
    /\ LET top == Top(g)
           id == Len(indirect) + 1
       IN  /\ indirect' = Append(indirect, [f |-> NilMapper, wg |-> 1])
           /\ mapperCache' = (mapperCacheKey(top.t, top.opt) :> IndirectMapper(id)) @@ mapperCache
           /\ Settle(g, call[g], SetTop(Running(stack[g]), [top EXCEPT !.pc = "build", !.id = id]))
    /\ UNCHANGED <<fieldCache, call, calls>>

\* lines 112-122 in one step: Lock, the store, Unlock
Publish(g) == PublishLocked(g) /\ UNCHANGED locks

\* getTypeFields, lines 338-347: read the field cache, build on a miss
FieldsReadLocked(g) ==
    /\ AtGet(g, "fields")
    /\ LET top == Top(g)
       IN  IF top.t \in DOMAIN fieldCache
           THEN Settle(g, call[g], SetTop(Running(stack[g]),
                    [top EXCEPT !.fields = fieldCache[top.t], !.haveFields = TRUE, !.pc = "build"]))
           ELSE Settle(g, call[g], SetTop(Running(stack[g]),
                    [top EXCEPT !.fields = buildTypeFields(top.t), !.pc = "fieldsStore"]))
    /\ UNCHANGED <<mapperCache, fieldCache, indirect, call, calls>>

\* lines 338-340 in one step: RLock, the read, RUnlock
FieldsRead(g) == FieldsReadLocked(g) /\ UNCHANGED locks

\* getTypeFields, lines 349-355: store the fields built
FieldsStoreLocked(g) ==
    /\ AtGet(g, "fieldsStore")
    /\ LET top == Top(g)
       IN  /\ fieldCache' = (top.t :> top.fields) @@ fieldCache
           /\ Settle(g, call[g], SetTop(Running(stack[g]),
                    [top EXCEPT !.haveFields = TRUE, !.pc = "build"]))
    /\ UNCHANGED <<mapperCache, indirect, call, calls>>

\* lines 349-354 in one step: Lock, the store, Unlock
FieldsStore(g) == FieldsStoreLocked(g) /\ UNCHANGED locks

\* getTypeMapper, line 126: f = newTypeMapper(t, opt), f being the variable
\* the indirect func captured
Assign(g) ==
    /\ AtGet(g, "assign")
    /\ LET top == Top(g)
           f == newTypeMapper(top.t, top.opt, top.fields, top.fns)
       IN  /\ indirect' = [indirect EXCEPT ![top.id].f = f]
           /\ Settle(g, call[g], SetTop(Running(stack[g]), [top EXCEPT !.f = f, !.pc = "done"]))
    /\ UNCHANGED <<mapperCache, fieldCache, call, calls, locks>>

\* getTypeMapper without line 127
DoneForgotten(g) ==
    /\ AtGet(g, "done")
    /\ Settle(g, call[g], SetTop(Running(stack[g]), [Top(g) EXCEPT !.pc = "store"]))
    /\ UNCHANGED <<mapperCache, fieldCache, indirect, call, calls, locks>>

\* getTypeMapper, line 127: wg.Done()
Done(g) ==
    /\ AtGet(g, "done")
    /\ LET top == Top(g)
       IN  /\ indirect' = [indirect EXCEPT ![top.id].wg = @ - 1]
           /\ Settle(g, call[g], SetTop(Running(stack[g]), [top EXCEPT !.pc = "store"]))
    /\ UNCHANGED <<mapperCache, fieldCache, call, calls, locks>>

\* getTypeMapper, lines 129-132: store f under the key and return it
StoreLocked(g) ==
    /\ AtGet(g, "store")
    /\ LET top == Top(g)
       IN  /\ mapperCache' = (mapperCacheKey(top.t, top.opt) :> top.f) @@ mapperCache
           /\ Settle(g, call[g], Return(Running(stack[g]), top.f))
    /\ UNCHANGED <<fieldCache, indirect, call, calls>>

\* lines 129-131 in one step: Lock, the store, Unlock
Store(g) == StoreLocked(g) /\ UNCHANGED locks

\* the indirect func, lines 118-121: wg.Wait() returns, f(v) is called
Wait(g) ==
    /\ stack[g] # <<>>
    /\ Top(g).fk = "call"
    /\ Top(g).m.fn = "indirect"
    /\ indirect[Top(g).m.id].wg = 0
    /\ Settle(g, call[g], Goto(Running(stack[g]),
                               CallFrame(indirect[Top(g).m.id].f, Top(g).v)))
    /\ UNCHANGED <<mapperCache, fieldCache, indirect, call, calls, locks>>

Step(g) ==
    \/ ReadCache(g)
    \/ Publish(g)
    \/ FieldsRead(g)
    \/ FieldsStore(g)
    \/ Assign(g)
    \/ Done(g)
    \/ Store(g)
    \/ Wait(g)

\* one goroutine: Render calls one after the other
Next ==
    \/ \E v \in Srcs, viewName \in Views : Render("g1", v, viewName, MaxCalls)
    \/ Step("g1")

Spec == Init /\ [][Next]_vars

\* one goroutine that is scheduled as long as it can run, rendering values
\* of the self-referential types
RecSrcs == {nodes, tree}

RecNext ==
    \/ \E v \in RecSrcs, viewName \in Views : Render("g1", v, viewName, MaxCalls)
    \/ Step("g1")

RecSpec == Init /\ [][RecNext]_vars /\ WF_vars(Step("g1"))

\* Render calls of several goroutines, interleaved
ConcNext ==
    \/ \E g \in Goroutines, v \in ConcSrcs, viewName \in ConcViews :
          Render(g, v, viewName, MaxConcCalls)
    \/ \E g \in Goroutines : Step(g)

ConcSpec == Init /\ [][ConcNext]_vars

\* the same with a scheduler that lets every goroutine run that can
ConcFairSpec == ConcSpec /\ \A g \in Goroutines : WF_vars(Step(g))

---------------------------------------------------------------------------
(* The same steps with the locks taken in steps of their own: a goroutine  *)
(* takes the cache's RWMutex in one step and does what the code does under *)
(* it, up to the unlock, in the next.                                      *)

Holds(g, c) == locks[c].writer = g \/ g \in locks[c].readers
HoldsNone(g) == \A c \in DOMAIN locks : ~Holds(g, c)

\* c.RLock() returns: no goroutine holds c for writing
RLock(g, c) ==
    /\ HoldsNone(g)
    /\ locks[c].writer = ""
    /\ locks' = [locks EXCEPT ![c].readers = @ \cup {g}]
    /\ UNCHANGED <<mapperCache, fieldCache, indirect, stack, call, returned, calls>>

\* c.Lock() returns: no goroutine holds c
Lock(g, c) ==
    /\ HoldsNone(g)
    /\ locks[c].writer = ""
    /\ locks[c].readers = {}
    /\ locks' = [locks EXCEPT ![c].writer = g]
    /\ UNCHANGED <<mapperCache, fieldCache, indirect, stack, call, returned, calls>>

RUnlock(g, c) == locks' = [locks EXCEPT ![c].readers = @ \ {g}]
Unlock(g, c) == locks' = [locks EXCEPT ![c].writer = ""]

\* getTypeMapper, line 100
ReadCacheRLock(g) == AtGet(g, "read") /\ RLock(g, "mapperCache")
\* lines 101-102
ReadCacheRUnlock(g) ==
    g \in locks["mapperCache"].readers /\ ReadCacheLocked(g) /\ RUnlock(g, "mapperCache")
\* line 112
PublishLock(g) == AtGet(g, "publish") /\ Lock(g, "mapperCache")
\* a Publish that left the unlock of line 122 to a defer
PublishKeepLock(g) ==
    locks["mapperCache"].writer = g /\ PublishLocked(g) /\ UNCHANGED locks
\* lines 113-122
PublishUnlock(g) ==
    locks["mapperCache"].writer = g /\ PublishLocked(g) /\ Unlock(g, "mapperCache")
\* line 129
StoreLock(g) == AtGet(g, "store") /\ Lock(g, "mapperCache")
\* lines 130-131
StoreUnlock(g) ==
    locks["mapperCache"].writer = g /\ StoreLocked(g) /\ Unlock(g, "mapperCache")
\* getTypeFields, line 338
FieldsReadRLock(g) == AtGet(g, "fields") /\ RLock(g, "fieldCache")
\* lines 339-340
FieldsReadRUnlock(g) ==
    g \in locks["fieldCache"].readers /\ FieldsReadLocked(g) /\ RUnlock(g, "fieldCache")
\* line 349
FieldsStoreLock(g) == AtGet(g, "fieldsStore") /\ Lock(g, "fieldCache")
\* lines 350-354
FieldsStoreUnlock(g) ==
    locks["fieldCache"].writer = g /\ FieldsStoreLocked(g) /\ Unlock(g, "fieldCache")

LockStep(g) ==
    \/ ReadCacheRLock(g)
    \/ ReadCacheRUnlock(g)
    \/ PublishLock(g)
    \/ PublishUnlock(g)
    \/ FieldsReadRLock(g)
    \/ FieldsReadRUnlock(g)
    \/ FieldsStoreLock(g)
    \/ FieldsStoreUnlock(g)
    \/ Assign(g)
    \/ Done(g)
    \/ StoreLock(g)
    \/ StoreUnlock(g)
    \/ Wait(g)

LockNext ==
    \/ \E g \in Goroutines, v \in ConcSrcs, viewName \in ConcViews :
          Render(g, v, viewName, MaxConcCalls)
    \/ \E g \in Goroutines : LockStep(g)

LockSpec == Init /\ [][LockNext]_vars

\* one goroutine rendering containers of every kind, nil, empty and filled,
\* also with the empty view name
KindSrcs == {InvalidValue, u, nilUser, nilProducts, noProducts, Products, productArray,
             hasUser, hasSK, hasNil, vacant, bare, nodes}
KindViews == {admin, empty}

KindNext ==
    \/ \E v \in KindSrcs, viewName \in KindViews : Render("g1", v, viewName, MaxCalls)
    \/ Step("g1")

KindSpec == Init /\ [][KindNext]_vars

---------------------------------------------------------------------------
(* What the claims speak of *)

Idle == \A g \in Goroutines : stack[g] = <<>>

UnsupportedKinds == {"Invalid", "Func", "Chan", "UnsafePointer"}

\* v is a struct or a non-nil pointer to one; StructOf(v) is that struct
IsStructArg(v) ==
    \/ Kind(v.t) = "Struct"
    \/ Kind(v.t) = "Ptr" /\ ~v.nil /\ Kind(Elem(v.t)) = "Struct"
StructOf(v) == IF Kind(v.t) = "Ptr" THEN Heap[v.addr] ELSE v

\* the tag lists viewName among its comma-separated names
Lists(tag, viewName) == \E i \in 1..Len(Split(tag)) : Split(tag)[i] = viewName
FieldIdx(t) == 0..(NumField(t) - 1)
FieldNames(t) == {Field(t, i).Name : i \in FieldIdx(t)}
MatchedIdx(t, viewName) == {i \in FieldIdx(t) : Lists(Field(t, i).Tag, viewName)}
MatchedNames(t, viewName) == {Field(t, i).Name : i \in MatchedIdx(t, viewName)}
PartialMatch(t, viewName) ==
    /\ MatchedIdx(t, viewName) # {}
    /\ MatchedIdx(t, viewName) # FieldIdx(t)
\* the fields a struct strategy covers by the decision table
CoveredIdx(t, viewName) ==
    IF MatchedIdx(t, viewName) = {} THEN FieldIdx(t) ELSE MatchedIdx(t, viewName)

\* the strategy decided for (t, viewName) is a real one, not "no strategy"
HasStrategy(t, viewName) == CacheGet([t |-> t, tag |-> viewName]) # NilMapper

\* res is the projection of v: v itself where its type has no strategy,
\* else the container rebuilt around the projections of its parts
RECURSIVE Projects(_, _, _)
Projects(res, v, viewName) ==
    IF ~HasStrategy(v.t, viewName) THEN res = Interface(v)
    ELSE CASE Kind(v.t) \in {"Ptr", "Interface"} ->
                IF v.nil THEN res = NilResult
                ELSE Projects(res, ValueElem(v), viewName)
           [] Kind(v.t) \in {"Slice", "Array"} ->
                IF Kind(v.t) = "Slice" /\ v.nil THEN res = NilResult
                ELSE /\ res.k = "[]interface{}"
                     /\ Len(res.e) = Len(v.e)
                     /\ \A i \in 1..Len(v.e) : Projects(res.e[i], v.e[i], viewName)
           [] Kind(v.t) = "Map" ->
                /\ res.k = "map"
                /\ DOMAIN res.m = DOMAIN v.m
                /\ \A key \in DOMAIN v.m : Projects(res.m[key], v.m[key], viewName)
           [] Kind(v.t) = "Struct" ->
                /\ res.k = "map[string]interface{}"
                /\ DOMAIN res.m = {Field(v.t, i).Name : i \in CoveredIdx(v.t, viewName)}
                /\ \A i \in CoveredIdx(v.t, viewName) :
                      Projects(res.m[Field(v.t, i).Name], ValueField(v, i), viewName)
           [] OTHER -> FALSE

\* the traversal of v calls the strategy of a value of an unsupported kind
RECURSIVE VisitsUnsupported(_, _)
VisitsUnsupported(v, viewName) ==
    CASE Kind(v.t) \in UnsupportedKinds -> TRUE
      [] ~HasStrategy(v.t, viewName) -> FALSE
      [] Kind(v.t) \in {"Ptr", "Interface"} ->
            ~v.nil /\ VisitsUnsupported(ValueElem(v), viewName)
      [] Kind(v.t) \in {"Slice", "Array"} ->
            \E i \in 1..Len(v.e) : VisitsUnsupported(v.e[i], viewName)
      [] Kind(v.t) = "Map" ->
            \E key \in DOMAIN v.m : VisitsUnsupported(v.m[key], viewName)
      [] Kind(v.t) = "Struct" ->
            \E i \in CoveredIdx(v.t, viewName) : VisitsUnsupported(ValueField(v, i), viewName)
      [] OTHER -> FALSE

Succeeded(r) == r.err = NoError /\ r.panic = NoError

---------------------------------------------------------------------------
(* Claims *)

\* C1 (filtering law): when Render has returned for a struct, or a pointer
\* to one, some but not all of whose fields list the view, and none of the
\* listed fields is of an unsupported kind, the result is a mapping whose
\* keys are exactly the names of the fields listing the view, each with
\* the projection of the field's current value.
C1_FilteringLaw ==
    Idle => \A k \in 1..Len(returned) :
        LET r == returned[k]
            t == StructOf(r.src).t
        IN  ( /\ IsStructArg(r.src)
              /\ PartialMatch(t, r.viewName)
              /\ \A i \in MatchedIdx(t, r.viewName) : Kind(Field(t, i).Type) \notin UnsupportedKinds )
            => /\ Succeeded(r)
               /\ r.i.k = "map[string]interface{}"
               /\ DOMAIN r.i.m = MatchedNames(t, r.viewName)
               /\ \A i \in MatchedIdx(t, r.viewName) :
                     Projects(r.i.m[Field(t, i).Name], ValueField(StructOf(r.src), i), r.viewName)

\* Render(u, "admin") returned the mapping with the one key Id
C1_Witness ==
    /\ Idle
    /\ \E k \in 1..Len(returned) :
          /\ returned[k].src = u
          /\ returned[k].viewName = admin
          /\ returned[k].i = StructResult("Id" :> Interface(UintV(7)))

\* every field of struct type t is of a kind newTypeMapper gives no mapper
ScalarFields(t) == \A i \in FieldIdx(t) : Kind(Field(t, i).Type) \in {"Uint", "String"}

\* C2 (identity short-circuit): for a struct, or a pointer to one, whose
\* fields are all scalars and of which the view matches no field or every
\* field, every Render call returns its argument itself (the same pointer),
\* and the strategy decided for the struct type is "no strategy".
C2_IdentityShortCircuit ==
    \A k \in 1..Len(returned) :
        LET r == returned[k]
            t == StructOf(r.src).t
        IN  ( /\ IsStructArg(r.src)
              /\ ScalarFields(t)
              /\ ~PartialMatch(t, r.viewName) )
            => /\ Succeeded(r)
               /\ r.i = Interface(r.src)
               /\ Idle => ~HasStrategy(t, r.viewName) /\ ~HasStrategy(r.src.t, r.viewName)

\* Render(u, "system") returned the pointer u itself, and did so again on
\* a second call
C2_Witness ==
    /\ Len(returned) = 2
    /\ \A k \in 1..2 : /\ returned[k].src = u
                       /\ returned[k].viewName = system
                       /\ returned[k].i = Interface(u)

\* a value of type t may hold a value of an unsupported kind
RECURSIVE ReachesUnsupported(_, _)
ReachesUnsupported(t, depth) ==
    \/ Kind(t) \in UnsupportedKinds
    \/ /\ depth > 0
       /\ \E j \in 1..Len(nestedTypes(t)) : ReachesUnsupported(nestedTypes(t)[j], depth - 1)

\* C3 (zero matched fields, nested transforms): when Render has returned
\* for a struct, or a pointer to one, none of whose fields lists the view,
\* at least one of whose field types has a real strategy, and which holds
\* no value of an unsupported kind, the result is a mapping with all the
\* struct's fields: the field itself where its type has no strategy, its
\* projection where it has one.
C3_ZeroMatchedNested ==
    Idle => \A k \in 1..Len(returned) :
        LET r == returned[k]
            t == StructOf(r.src).t
        IN  ( /\ IsStructArg(r.src)
              /\ MatchedIdx(t, r.viewName) = {}
              /\ \E i \in FieldIdx(t) : HasStrategy(Field(t, i).Type, r.viewName)
              /\ ~ReachesUnsupported(t, Cardinality(DOMAIN TypeTable)) )
            => /\ Succeeded(r)
               /\ r.i.k = "map[string]interface{}"
               /\ DOMAIN r.i.m = FieldNames(t)
               /\ \A i \in FieldIdx(t) :
                     LET x == r.i.m[Field(t, i).Name]
                         fv == ValueField(StructOf(r.src), i)
                     IN  IF HasStrategy(Field(t, i).Type, r.viewName)
                         THEN Projects(x, fv, r.viewName) /\ x # Interface(fv)
                         ELSE x = Interface(fv)

\* Render(a, "admin") returned User projected and Products as it was
C3_Witness ==
    /\ Idle
    /\ \E k \in 1..Len(returned) :
          /\ returned[k].src = a
          /\ returned[k].viewName = admin
          /\ returned[k].i = StructResult(
                ("User" :> StructResult("Id" :> Interface(UintV(7))))
                @@ ("Products" :> Interface(Products)))

\* C4 (unsupported type): when the traversal of a Render call calls the
\* strategy of a value of an unsupported kind, Render returns the nil
\* result and an UnsupportedTypeError carrying a type of that kind, and
\* nothing escapes Render as a panic.
C4_UnsupportedTypeError ==
    Idle => \A k \in 1..Len(returned) :
        LET r == returned[k]
        IN  VisitsUnsupported(r.src, r.viewName)
            => /\ r.i = NilResult
               /\ r.err.e = "UnsupportedTypeError"
               /\ Kind(r.err.Type) \in UnsupportedKinds
               /\ r.panic = NoError

\* Render(src, "admin"), src holding a channel in a nested struct, returned
\* nil and the error for the channel type
C4_Witness ==
    /\ Idle
    /\ \E k \in 1..Len(returned) :
          /\ returned[k].src = src
          /\ returned[k].viewName = admin
          /\ returned[k].i = NilResult
          /\ returned[k].err = UnsupportedTypeError("chan")

\* C5 (concurrent invocation safety): no strategy a caller obtains fails
\* abruptly when called, other than with UnsupportedType: under any
\* interleaving no Render call ends in a panic that is not an
\* UnsupportedTypeError, and no indirect func whose wait is over forwards
\* to a nil func.
C5_NoAbruptFailure ==
    /\ \A k \in 1..Len(returned) : returned[k].panic = NoError
    /\ \A g \in Goroutines :
          ( /\ stack[g] # <<>>
            /\ Top(g).fk = "call"
            /\ Top(g).m.fn = "indirect"
            /\ indirect[Top(g).m.id].wg = 0 )
          => indirect[Top(g).m.id].f # NilMapper

\* a real strategy: a mapper that is neither nil nor an indirect func
IsReal(m) == m # NilMapper /\ m.fn # "indirect"

\* C6 (write-once publication): once the cache holds a real strategy under
\* a key, no step stores a different value under that key.
C6_WriteOnce ==
    [][\A key \in DOMAIN mapperCache :
          IsReal(mapperCache[key]) => mapperCache'[key] = mapperCache[key]]_vars

\* the projection of the chain of nodes from pointer p on, with the fields
\* named in names at every depth
RECURSIVE NodeProjection(_, _)
NodeProjection(p, names) ==
    IF p.nil THEN NilResult
    ELSE LET n == Heap[p.addr]
         IN  StructResult([name \in names |->
                CASE name = "Val" -> Interface(ValueField(n, 0))
                  [] name = "Next" -> NodeProjection(ValueField(n, 1), names)
                  [] name = "Key" -> Interface(ValueField(n, 2))])

\* the same for the tree t whose children are in the slice Kids
RECURSIVE TreeProjection(_, _)
TreeProjection(t, names) ==
    StructResult([name \in names |->
        CASE name = "Val" -> Interface(ValueField(t, 0))
          [] name = "Kids" ->
                LET kids == ValueField(t, 1)
                IN  IF kids.nil THEN NilResult
                    ELSE SliceResult([j \in 1..Len(kids.e) |-> TreeProjection(kids.e[j], names)])
          [] name = "Key" -> Interface(ValueField(t, 2))])

\* the names of the fields of struct type t a view covers
CoveredNames(t, viewName) == {Field(t, i).Name : i \in CoveredIdx(t, viewName)}

\* the last Render call returned was Render(v, viewName) and returned i
LastReturned(v, viewName, i) ==
    /\ Idle
    /\ returned # <<>>
    /\ LET r == returned[Len(returned)]
       IN  r.src = v /\ r.viewName = viewName /\ Succeeded(r) /\ r.i = i

Rendering(v, viewName) ==
    /\ stack["g1"] # <<>>
    /\ call["g1"] = [src |-> v, viewName |-> viewName]

\* C7 (recursive type termination): a Render call for a value of a
\* self-referential struct type (through a pointer field, or through a
\* slice field) always returns, with the projection of the node at every
\* depth of the value.
C7_RecursiveTermination ==
    \A viewName \in Views :
        /\ Rendering(nodes, viewName)
              ~> LastReturned(nodes, viewName,
                              NodeProjection(nodes, CoveredNames("Node", viewName)))
        /\ Rendering(tree, viewName)
              ~> LastReturned(tree, viewName,
                              TreeProjection(tree, CoveredNames("Tree", viewName)))

\* Render(nodes, "admin") returned Val and Next of both nodes of the chain,
\* on a second call too
C7_Witness ==
    /\ Len(returned) = 2
    /\ returned[1].src = nodes /\ returned[1].viewName = admin
    /\ LastReturned(nodes, admin,
          StructResult(("Val" :> Interface(UintV(1))) @@
                       ("Next" :> StructResult(("Val" :> Interface(UintV(2))) @@
                                               ("Next" :> NilResult)))))

\* C8 (map key preservation): when Render has returned for a map whose
\* value type has a real strategy, the result is a map with exactly the
\* keys of the argument, each with the projection of the argument's value
\* at that key (the nil result for a nil pointer).
C8_MapKeysPreserved ==
    Idle => \A k \in 1..Len(returned) :
        LET r == returned[k]
        IN  ( /\ Kind(r.src.t) = "Map"
              /\ HasStrategy(Elem(r.src.t), r.viewName) )
            => /\ Succeeded(r)
               /\ r.i.k = "map"
               /\ DOMAIN r.i.m = DOMAIN r.src.m
               /\ \A key \in DOMAIN r.src.m :
                     Projects(r.i.m[key], r.src.m[key], r.viewName)

\* no field of struct type t has a view tag
ZeroTagged(t) == \A i \in FieldIdx(t) : Field(t, i).Tag = empty

\* C9 as claimed (identity law): for a struct, or a pointer to one, none of
\* whose fields has a view tag, Render returns its argument itself for any
\* view, whatever the types of the fields.
C9_IdentityLawAnyFields ==
    \A k \in 1..Len(returned) :
        LET r == returned[k]
        IN  (IsStructArg(r.src) /\ ZeroTagged(StructOf(r.src).t))
            => Succeeded(r) /\ r.i = Interface(r.src)

\* C9 as amended: for a struct, or a pointer to one, none of whose fields
\* has a view tag and none of whose field types has a real strategy for
\* the view, Render returns its argument itself.
C9_IdentityLaw ==
    Idle => \A k \in 1..Len(returned) :
        LET r == returned[k]
            t == StructOf(r.src).t
        IN  ( /\ IsStructArg(r.src)
              /\ ZeroTagged(t)
              /\ \A i \in FieldIdx(t) : ~HasStrategy(Field(t, i).Type, r.viewName) )
            => Succeeded(r) /\ r.i = Interface(r.src)

\* Render(a, "system") returned a: Activity has no tags, and neither *User
\* nor []Product has a strategy for system
C9_Witness ==
    /\ Idle
    /\ \E k \in 1..Len(returned) :
          /\ returned[k].src = a
          /\ returned[k].viewName = system
          /\ returned[k].i = Interface(a)
          /\ ~HasStrategy("PtrUser", system)
          /\ ~HasStrategy("SliceProduct", system)

\* the traversal of v calls the strategy of a non-nil value of an
\* unsupported kind
RECURSIVE VisitsPopulatedUnsupported(_, _)
VisitsPopulatedUnsupported(v, viewName) ==
    CASE Kind(v.t) \in UnsupportedKinds -> ~v.nil
      [] ~HasStrategy(v.t, viewName) -> FALSE
      [] Kind(v.t) \in {"Ptr", "Interface"} ->
            ~v.nil /\ VisitsPopulatedUnsupported(ValueElem(v), viewName)
      [] Kind(v.t) \in {"Slice", "Array"} ->
            \E i \in 1..Len(v.e) : VisitsPopulatedUnsupported(v.e[i], viewName)
      [] Kind(v.t) = "Map" ->
            \E key \in DOMAIN v.m : VisitsPopulatedUnsupported(v.m[key], viewName)
      [] Kind(v.t) = "Struct" ->
            \E i \in CoveredIdx(v.t, viewName) :
                VisitsPopulatedUnsupported(ValueField(v, i), viewName)
      [] OTHER -> FALSE

\* C10 as claimed (lazy failure): Render returns an UnsupportedTypeError
\* only if the traversal visits a populated value of an unsupported kind;
\* a struct whose field of such a kind is nil renders without error.
C10_FailsOnlyOnPopulated ==
    Idle => \A k \in 1..Len(returned) :
        returned[k].err # NoError
            => VisitsPopulatedUnsupported(returned[k].src, returned[k].viewName)

\* C10 as amended: Render returns an UnsupportedTypeError exactly when the
\* traversal calls the strategy of a value of an unsupported kind, nil or
\* not; a field of such a kind that the traversal does not reach because
\* the view selects other fields does not fail the call.
C10_FailsWhenVisited ==
    Idle => \A k \in 1..Len(returned) :
        returned[k].err # NoError
            <=> VisitsUnsupported(returned[k].src, returned[k].viewName)

\* Render(guarded, "admin") returned Id without error although Done holds
\* a channel, and Render(src, "admin") failed on src's nil channel
C10_Witness ==
    /\ Idle
    /\ \E k \in 1..Len(returned) :
          /\ returned[k].src = guarded
          /\ returned[k].viewName = admin
          /\ returned[k].err = NoError
          /\ returned[k].i = StructResult("Id" :> Interface(UintV(7)))
    /\ \E k \in 1..Len(returned) :
          /\ returned[k].src = src
          /\ ValueField(ValueField(src, 0), 0).nil
          /\ returned[k].err = UnsupportedTypeError("chan")

---------------------------------------------------------------------------
(* The result of a Render call on an empty cache, from the types alone *)

\* getTypeMapper(t) returns a func, not nil, when the cache is empty but
\* for the indirect funcs of the types in visiting, which are being built
RECURSIVE Decides(_, _, _)
Decides(t, viewName, visiting) ==
    IF t \in visiting THEN TRUE
    ELSE CASE Kind(t) \in UnsupportedKinds -> TRUE
           [] Kind(t) = "Interface" -> TRUE
           [] Kind(t) \in {"Ptr", "Map", "Array", "Slice"} ->
                Decides(Elem(t), viewName, visiting \cup {t})
           [] Kind(t) = "Struct" ->
                \/ PartialMatch(t, viewName)
                \/ \E i \in FieldIdx(t) :
                      Decides(Field(t, i).Type, viewName, visiting \cup {t})
           [] OTHER -> FALSE

\* the traversal of v reaches a value of an unsupported kind
RECURSIVE RefFails(_, _)
RefFails(v, viewName) ==
    IF ~IsValid(v) THEN FALSE
    ELSE CASE Kind(v.t) \in UnsupportedKinds -> TRUE
           [] ~Decides(v.t, viewName, {}) -> FALSE
           [] Kind(v.t) \in {"Ptr", "Interface"} ->
                ~v.nil /\ RefFails(ValueElem(v), viewName)
           [] Kind(v.t) \in {"Slice", "Array"} ->
                \E i \in 1..Len(v.e) : RefFails(v.e[i], viewName)
           [] Kind(v.t) = "Map" ->
                \E key \in DOMAIN v.m : RefFails(v.m[key], viewName)
           [] Kind(v.t) = "Struct" ->
                \E i \in CoveredIdx(v.t, viewName) : RefFails(ValueField(v, i), viewName)
           [] OTHER -> FALSE

\* what the traversal of v builds when it does not fail
RECURSIVE RefValue(_, _)
RefValue(v, viewName) ==
    IF ~IsValid(v) THEN NilResult
    ELSE IF ~Decides(v.t, viewName, {}) THEN Interface(v)
    ELSE CASE Kind(v.t) \in {"Ptr", "Interface"} ->
                IF v.nil THEN NilResult ELSE RefValue(ValueElem(v), viewName)
           [] Kind(v.t) \in {"Slice", "Array"} ->
                IF Kind(v.t) = "Slice" /\ v.nil THEN NilResult
                ELSE SliceResult([i \in 1..Len(v.e) |-> RefValue(v.e[i], viewName)])
           [] Kind(v.t) = "Map" ->
                MapResult([Key |-> TypeTable[v.t].Key, Elem |-> "iface"],
                          [key \in {x \in DOMAIN v.m : RefValue(v.m[x], viewName) # NilResult}
                              |-> RefValue(v.m[key], viewName)])
           [] Kind(v.t) = "Struct" ->
                StructResult([name \in CoveredNames(v.t, viewName) |->
                    LET i == CHOOSE j \in FieldIdx(v.t) : Field(v.t, j).Name = name
                    IN  RefValue(ValueField(v, i), viewName)])
           [] OTHER -> NilResult

\* the returned call r ended as Render(v, viewName) ends on an empty cache
AsOnEmptyCache(r, v, viewName) ==
    /\ r.panic = NoError
    /\ IF RefFails(v, viewName)
       THEN r.i = NilResult /\ r.err.e = "UnsupportedTypeError"
       ELSE r.err = NoError /\ r.i = RefValue(v, viewName)

\* the first Render call of a behaviour runs on the empty cache
FirstCallAsOnEmptyCache ==
    returned # <<>> => AsOnEmptyCache(returned[1], returned[1].src, returned[1].viewName)

---------------------------------------------------------------------------
(* Claims on untagged fields and on containers *)

\* the view names Render may be given, the empty one among them
ViewNames == Views \cup KindViews

\* C11 (untagged fields belong to no view): a field with no view tag, or an
\* empty one, has an empty list of views, and the field matcher returns
\* false for it for every view name, the empty string included.
C11_UntaggedInNoView ==
    \A t \in DOMAIN fieldCache : \A i \in 1..Len(fieldCache[t]) :
        LET f == fieldCache[t][i]
        IN  f.tag = empty
            => /\ f.views = <<>>
               /\ \A viewName \in ViewNames : ~match(Options(viewName).fieldMatcher, f)

\* v is a nil pointer, a nil slice or a nil interface value
IsAbsent(v) ==
    IF ~IsValid(v) THEN TRUE
    ELSE Kind(v.t) \in {"Ptr", "Slice", "Interface"} /\ v.nil
\* v is a slice that is not nil and has no elements
IsEmptySlice(v) == IsValid(v) /\ Kind(v.t) = "Slice" /\ ~v.nil /\ v.e = <<>>

\* res is nil where v is nil, and a sequence of length 0 where v is an
\* empty slice
AbsentAsNil(res, v) ==
    /\ IsAbsent(v) => res = NilResult
    /\ IsEmptySlice(v) => res \in {SliceResult(<<>>), Interface(v)}

\* C12 as claimed (absent vs. empty containers): Render maps a nil pointer,
\* a nil slice and a nil interface value to the nil result and an empty
\* slice to a sequence of length 0, for every element type and view, at
\* the root and in the fields of a struct that is rendered as a mapping.
C12_AbsentIsNil ==
    \A k \in 1..Len(returned) :
        LET r == returned[k]
        IN  /\ Succeeded(r)
            /\ AbsentAsNil(r.i, r.src)
            /\ (IsValid(r.src) /\ Kind(r.src.t) = "Struct" /\ r.i.k = "map[string]interface{}")
                  => \A j \in FieldIdx(r.src.t) :
                        Field(r.src.t, j).Name \in DOMAIN r.i.m
                            => AbsentAsNil(r.i.m[Field(r.src.t, j).Name], ValueField(r.src, j))

\* res is what the strategy decided for v's type gives for a nil or empty
\* v: nil and the empty sequence where the type has a strategy, v itself
\* (a nil pointer or slice of v's type, not the nil result) where it has none
AbsentByStrategy(res, v, viewName) ==
    IF ~IsValid(v) THEN res = NilResult
    ELSE IF ~HasStrategy(v.t, viewName) THEN res = Interface(v)
    ELSE /\ IsAbsent(v) => res = NilResult
         /\ IsEmptySlice(v) => res = SliceResult(<<>>)

\* C12 as amended: Render maps a nil pointer and a nil slice to the nil
\* result, and an empty slice to a new sequence of length 0, when the
\* view decides a strategy for their type; when it decides none, Render
\* returns the nil pointer, the nil slice or the empty slice itself, which
\* is not the nil result.  A nil interface value maps to the nil result
\* always.  This holds at the root and in the fields of a struct that is
\* rendered as a mapping.
C12_AbsentByStrategy ==
    Idle => \A k \in 1..Len(returned) :
        LET r == returned[k]
        IN  (IsAbsent(r.src) \/ IsEmptySlice(r.src) \/ r.src.t = "Activity" \/ r.src.t = "HasI")
            => /\ Succeeded(r)
               /\ (IsAbsent(r.src) \/ IsEmptySlice(r.src))
                     => AbsentByStrategy(r.i, r.src, r.viewName)
               /\ (IsValid(r.src) /\ Kind(r.src.t) = "Struct")
                     => /\ r.i.k = "map[string]interface{}"
                        /\ \A j \in FieldIdx(r.src.t) :
                              LET fv == ValueField(r.src, j)
                              IN  (IsAbsent(fv) \/ IsEmptySlice(fv))
                                  => /\ Field(r.src.t, j).Name \in DOMAIN r.i.m
                                     /\ AbsentByStrategy(r.i.m[Field(r.src.t, j).Name],
                                                         fv, r.viewName)

\* with the empty view name an Activity of a nil *User and a nil []Product
\* was rendered as {User: nil, Products: nil}, and an empty []Product as an
\* empty sequence
C12_Witness ==
    /\ Idle
    /\ Len(returned) = 2
    /\ returned[1].src = vacant /\ returned[1].viewName = empty
    /\ returned[1].i = StructResult(("User" :> NilResult) @@ ("Products" :> NilResult))
    /\ returned[2].src = noProducts /\ returned[2].viewName = empty
    /\ returned[2].i = SliceResult(<<>>)

\* C13 (interface re-dispatch per call): a struct with a field of interface
\* type has been rendered, by every call that has returned, as the mapping
\* of that field to the projection of the concrete value the field holds
\* in that call (nil for a nil interface), whatever concrete types the
\* earlier calls held there.
C13_InterfaceRedispatch ==
    Idle => \A k \in 1..Len(returned) :
        LET r == returned[k]
        IN  (IsValid(r.src) /\ r.src.t = "HasI")
            => /\ Succeeded(r)
               /\ r.i.k = "map[string]interface{}"
               /\ DOMAIN r.i.m = {"I"}
               /\ LET held == ValueField(r.src, 0)
                  IN  IF held.nil THEN r.i.m["I"] = NilResult
                      ELSE r.i.m["I"] = RefValue(ValueElem(held), r.viewName)

\* the two calls of the test: the struct holding u, then holding a
\* struct{S; K}, rendered with admin on the strategy the first call cached
C13_Witness ==
    /\ Len(returned) = 2
    /\ returned[1].src = hasUser /\ returned[1].viewName = admin
    /\ returned[1].i = StructResult("I" :> StructResult("Id" :> Interface(UintV(7))))
    /\ returned[2].src = hasSK /\ returned[2].viewName = admin
    /\ returned[2].i = StructResult("I" :> StructResult("S" :> Interface(StringV("test"))))

\* C14 (array/slice projection): for an array, or a slice that is not nil,
\* whose element type has a strategy, Render returns a new sequence of the
\* argument's length that holds at every position the element strategy's
\* result for the argument's element at that position.
C14_SequenceProjection ==
    Idle => \A k \in 1..Len(returned) :
        LET r == returned[k]
        IN  ( /\ IsValid(r.src)
              /\ Kind(r.src.t) \in {"Array", "Slice"}
              /\ ~IsAbsent(r.src)
              /\ HasStrategy(Elem(r.src.t), r.viewName) )
            => /\ Succeeded(r)
               /\ r.i.k = "[]interface{}"
               /\ Len(r.i.e) = Len(r.src.e)
               /\ \A j \in 1..Len(r.src.e) : r.i.e[j] = RefValue(r.src.e[j], r.viewName)

\* the array of two *Product and the slice of two Product were rendered
\* with the empty view name as the sequence of {Id: 3} and {Id: 5}
C14_Witness ==
    /\ Idle
    /\ Len(returned) = 2
    /\ returned[1].src = productArray /\ returned[2].src = Products
    /\ \A k \in 1..2 :
          /\ returned[k].viewName = empty
          /\ returned[k].i = SliceResult(<<StructResult("Id" :> Interface(UintV(3))),
                                           StructResult("Id" :> Interface(UintV(5)))>>)

---------------------------------------------------------------------------
(* Claims on concurrent callers and on the cache *)

\* the func getTypeMapper(t, opt) returns to a caller that runs alone on an
\* empty cache; the types in visiting are being built by that caller
RECURSIVE BuiltAlone(_, _, _)
BuiltAlone(t, opt, visiting) ==
    IF t \in visiting THEN IndirectMapper(0)
    ELSE newTypeMapper(t, opt,
            IF Kind(t) = "Struct" THEN buildTypeFields(t) ELSE <<>>,
            [j \in 1..Len(nestedTypes(t)) |->
                BuiltAlone(nestedTypes(t)[j], opt, visiting \cup {t})])

\* C15 (equivalence of concurrent and sequential results): under any
\* interleaving every Render call returns what it returns when it runs
\* alone on an empty cache, and the strategies the callers leave in the
\* cache are the ones a caller builds that observes no indirect func of
\* another caller.
C15_ConcurrentAsSequential ==
    /\ \A k \in 1..Len(returned) :
          AsOnEmptyCache(returned[k], returned[k].src, returned[k].viewName)
    /\ Idle => \A key \in DOMAIN mapperCache :
                  mapperCache[key] = BuiltAlone(key.t, Options(key.tag), {})

\* the getTypeMapper calls in progress: the frames of every goroutine
GetFrames ==
    {fr \in UNION {{stack[g][i] : i \in 1..Len(stack[g])} : g \in Goroutines} :
        fr.fk = "getTypeMapper"}
\* the call is between the store of its indirect func and line 126's end
Constructing(fr) == fr.pc \in {"build", "fields", "fieldsStore", "assign"}
\* goroutine g is inside the indirect func id
InIndirect(g, id) ==
    /\ stack[g] # <<>>
    /\ Top(g).fk = "call"
    /\ Top(g).m = IndirectMapper(id)

\* C16 (placeholder protocol ordering): a getTypeMapper call that missed
\* the cache starts to construct (reads fields, asks for nested types)
\* only after it stored its indirect func under the key; while it
\* constructs, the indirect func's wait is not released and f is not
\* assigned; the wait is released only after f was assigned the func
\* constructed; a func that is not an indirect func is stored under a key
\* only by a call that finished constructing it, and only after the
\* release; so an indirect func whose wait is over forwards to the func
\* its builder finished with.
C16_PlaceholderOrdering ==
    /\ [](\A fr \in GetFrames :
            /\ fr.pc \in {"read", "publish"}
                  => fr.id = 0 /\ fr.fns = <<>> /\ ~fr.haveFields
            /\ Constructing(fr)
                  => /\ fr.id \in 1..Len(indirect)
                     /\ mapperCacheKey(fr.t, fr.opt) \in DOMAIN mapperCache
                     /\ indirect[fr.id].wg = 1
                     /\ indirect[fr.id].f = NilMapper
            /\ fr.pc = "done"
                  => /\ indirect[fr.id].wg = 1
                     /\ fr.f = newTypeMapper(fr.t, fr.opt, fr.fields, fr.fns)
                     /\ indirect[fr.id].f = fr.f
            /\ fr.pc = "store"
                  => indirect[fr.id].wg = 0 /\ indirect[fr.id].f = fr.f)
    /\ [](\A g \in Goroutines, id \in 1..Len(indirect) :
            (InIndirect(g, id) /\ indirect[id].wg = 0)
                => \A fr \in GetFrames : fr.id = id => fr.pc = "store")
    /\ [][\A key \in DOMAIN mapperCache' :
            ( /\ mapperCache'[key].fn # "indirect"
              /\ (key \notin DOMAIN mapperCache \/ mapperCache[key] # mapperCache'[key]) )
            => \E g \in Goroutines :
                  /\ AtGet(g, "store")
                  /\ key = mapperCacheKey(Top(g).t, Top(g).opt)
                  /\ mapperCache'[key] = Top(g).f
                  /\ indirect[Top(g).id].wg = 0]_vars

\* a goroutine is inside the indirect func another one stored for the
\* struct type, the wait is over, and f is the struct mapper built
C16_Witness ==
    \E g \in Goroutines, id \in 1..Len(indirect) :
        /\ InIndirect(g, id)
        /\ indirect[id].wg = 0
        /\ indirect[id].f.fn = "structMapper"
        /\ \E h \in Goroutines \ {g} : AtGet(h, "store") /\ Top(h).id = id

\* goroutine g is in wg.Wait() of an indirect func whose f is being built
Blocked(g) == \E id \in 1..Len(indirect) : InIndirect(g, id) /\ indirect[id].wg # 0
\* goroutine g is inside a Render call
Active(g) == stack[g] # <<>>
\* goroutine g is back from a Render call that returned to its caller
Returned(g) ==
    /\ ~Active(g)
    /\ \E k \in 1..Len(returned) :
          /\ returned[k].g = g
          /\ \A j \in (k + 1)..Len(returned) : returned[j].g # g
          /\ returned[k].panic = NoError

\* every invocation that is blocked in an indirect func is released
WaitsReleased == \A g \in Goroutines : Blocked(g) ~> ~Blocked(g)
\* in no state are all the callers inside Render blocked
NeverAllBlocked ==
    [](\A g \in Goroutines : Active(g) => \E h \in Goroutines : Active(h) /\ ~Blocked(h))
\* every Render call comes to an end, by a return or by a panic
CallsEnd == \A g \in Goroutines : Active(g) ~> ~Active(g)

\* C17 (no deadlock, bounded waiting): with a fair scheduler every
\* invocation blocked in an indirect func is eventually released, in no
\* state are all callers waiting on each other, and every Render call
\* eventually returns to its caller.
C17_EveryCallReturns ==
    /\ WaitsReleased
    /\ NeverAllBlocked
    /\ \A g \in Goroutines : Active(g) ~> Returned(g)

\* a Render call for the type and view of g's current call has returned
RenderedBefore(g) ==
    \E k \in 1..Len(returned) :
        /\ returned[k].src.t = call[g].src.t
        /\ returned[k].viewName = call[g].viewName

\* C18 (memoize once): with one caller, once a Render call for a value of
\* type T with view X has returned, a later Render call for (T, X) takes
\* what it needs from the caches: it stores nothing in the mapper cache
\* (no indirect func, no rebuilt func), makes no new indirect func and
\* stores no field list, also when the strategy decided for (T, X) is
\* "no strategy".
C18_MemoizeOnce ==
    [][\A g \in Goroutines :
          (Active(g) /\ RenderedBefore(g))
              => /\ mapperCache' = mapperCache
                 /\ indirect' = indirect
                 /\ fieldCache' = fieldCache]_vars

\* C20 (history independence): with one caller, every Render call that has
\* returned has returned what Render returns for its argument and view on
\* an empty cache, whatever calls returned before it: calls for the same
\* type with other views, for other types, for types that contain the
\* argument's type or are contained in it.
C20_HistoryIndependence ==
    Idle => \A k \in 1..Len(returned) :
        AsOnEmptyCache(returned[k], returned[k].src, returned[k].viewName)

\* after Render(a, "admin"), which built the strategy of *User for admin
\* inside Activity's, Render(u, "system") returned u itself
C20_Witness ==
    /\ Len(returned) = 2
    /\ returned[1].src = a /\ returned[1].viewName = admin
    /\ returned[1].i.k = "map[string]interface{}"
    /\ returned[1].i.m["User"] = StructResult("Id" :> Interface(UintV(7)))
    /\ returned[2].src = u /\ returned[2].viewName = system
    /\ returned[2].i = Interface(u)

\* C19 (lock scope): a goroutine holds a cache's lock only while its
\* innermost call is at the one read or the one store the lock was taken
\* for: the shared lock at the read of lines 101 and 339, the exclusive
\* lock at the store of the indirect func, of the func built or of the
\* field list; it holds none while it runs newTypeMapper, getTypeFields'
\* build or a nested call, and never two.  Every change of the mapper
\* cache is one store under one key, made by the holder of the exclusive
\* lock, which gives the lock back in the same step.
C19_LockScope ==
    /\ [](\A g \in Goroutines :
            /\ g \in locks["mapperCache"].readers => AtGet(g, "read")
            /\ locks["mapperCache"].writer = g => AtGet(g, "publish") \/ AtGet(g, "store")
            /\ g \in locks["fieldCache"].readers => AtGet(g, "fields")
            /\ locks["fieldCache"].writer = g => AtGet(g, "fieldsStore")
            /\ ~(Holds(g, "mapperCache") /\ Holds(g, "fieldCache"))
            /\ (Active(g) /\ Top(g).fk = "getTypeMapper"
                          /\ (Constructing(Top(g)) \/ Top(g).pc = "done"))
                  => ~Holds(g, "mapperCache")
            /\ (AtGet(g, "assign") \/ AtGet(g, "done") \/ Blocked(g)) => HoldsNone(g))
    /\ [][mapperCache' # mapperCache
            => \E g \in Goroutines :
                  /\ locks["mapperCache"].writer = g
                  /\ locks'["mapperCache"].writer = ""
                  /\ LET key == mapperCacheKey(Top(g).t, Top(g).opt)
                     IN  \A k2 \in DOMAIN mapperCache :
                            k2 # key => mapperCache'[k2] = mapperCache[k2]]_vars

\* one goroutine holds the exclusive lock to store the indirect func for
\* uint while the other one is in newTypeMapper for the struct type
C19_Witness ==
    \E g \in Goroutines, h \in Goroutines :
        /\ locks["mapperCache"].writer = g
        /\ AtGet(g, "publish") /\ Top(g).t = "uint"
        /\ AtGet(h, "assign") /\ Top(h).t = "SK"
        /\ HoldsNone(h)

====
